---- MODULE Spec2Model ----
(***************************************************************************)
(* State-machine models of the example programs under src/code_examples.   *)
(* Each example program is a small pipeline built on the RxPY 1.x          *)
(* Observable API (from rx import Observable).  One record variable holds  *)
(* the state of each modelled program; every program has a specification   *)
(* of its own (SpecReader, SpecWalker, ...), in which the other programs'  *)
(* variables stay Idle.                                                    *)
(*                                                                         *)
(* Library behaviour the programs rely on is modelled where they call it:  *)
(*  - Observable.from_(iterable) takes iter(iterable) at subscription and  *)
(*    emits one item per action scheduled on the current-thread scheduler, *)
(*    a FIFO trampoline: an action scheduled while the trampoline runs is  *)
(*    queued behind the actions already waiting;                           *)
(*  - flat_map is map followed by merge_all: it subscribes to each inner   *)
(*    observable as it arrives and completes when the outer sequence and   *)
(*    every inner one have completed;                                      *)
(*  - an observer delivers nothing after on_error, on_completed or         *)
(*    dispose (its is_stopped flag).                                       *)
(***************************************************************************)
EXTENDS Integers, Sequences, FiniteSets, TLC

VARIABLES reader, walker, twitter, unsub, counter, observeOn, parallel

vars == <<reader, walker, twitter, unsub, counter, observeOn, parallel>>

\* The value of a program's variable in the specifications of the others.
Idle == [pc |-> "idle"]

(***************************************************************************)
(* Text: a character is a one-character string; "NL" is the line feed.     *)
(***************************************************************************)

\* str.isspace(): what str.split() and str.strip() treat as white space.
IsSpace(c) == c \in {" ", "NL"}

\* The regular expression class \w on str: letters, digits and underscore.
IsWordChar(c) == c \in {"b", "B", "1", "_"}

\* str.lower() of one character.
LowerChar(c) == IF c = "B" THEN "b" ELSE c

\* The map step without its call of lower().
LowerLeftOut(w) == w

\* str.lower()
Lower(w) == [i \in 1..Len(w) |-> LowerChar(w[i])]

RECURSIVE FileLinesFrom(_, _, _)
FileLinesFrom(text, i, cur) ==
    IF i > Len(text)
    THEN IF cur = <<>> THEN <<>> ELSE <<cur>>
    ELSE IF text[i] = "NL"
         THEN <<Append(cur, "NL")>> \o FileLinesFrom(text, i + 1, <<>>)
         ELSE FileLinesFrom(text, i + 1, Append(cur, text[i]))

\* Iterating a text file object: the lines, each with its line feed.
FileLines(text) == FileLinesFrom(text, 1, <<>>)

RECURSIVE SplitFrom(_, _, _)
SplitFrom(s, i, cur) ==
    IF i > Len(s)
    THEN IF cur = <<>> THEN <<>> ELSE <<cur>>
    ELSE IF IsSpace(s[i])
         THEN (IF cur = <<>> THEN <<>> ELSE <<cur>>) \o SplitFrom(s, i + 1, <<>>)
         ELSE SplitFrom(s, i + 1, Append(cur, s[i]))

\* s.split(): the maximal runs of characters that are not white space.
Split(s) == SplitFrom(s, 1, <<>>)

RECURSIVE LStrip(_)
LStrip(s) == IF s # <<>> /\ IsSpace(Head(s)) THEN LStrip(Tail(s)) ELSE s

RECURSIVE RStrip(_)
RStrip(s) ==
    IF s # <<>> /\ IsSpace(s[Len(s)]) THEN RStrip(SubSeq(s, 1, Len(s) - 1)) ELSE s

\* l.strip()
Strip(s) == RStrip(LStrip(s))

KeepWordChar(c) == IsWordChar(c)
\* re.sub(r'[^\w]', '', w): drop every character that is not a word character.
ReSubNonWord(w) == SelectSeq(w, KeepWordChar)

KeepWordOrSpace(c) == IsWordChar(c) \/ IsSpace(c)
\* re.sub(r'[^\w\s]', '', w): drop what is neither a word character nor space.
ReSubNonWordNonSpace(w) == SelectSeq(w, KeepWordOrSpace)

(***************************************************************************)
(* read_lines (7.1A) and words_from_file (7.3A, 7.3B): the file is opened  *)
(* once, when the function is called; the observable it returns wraps that *)
(* one file object.  reader is the state after that call:                  *)
(*   text          the file's content                                      *)
(*   pipeline      which function built the observable                     *)
(*   filePos       lines already taken from the file object                *)
(*   subs          subscribe calls made on the observable so far           *)
(*   queue         the trampoline's queue of scheduled actions: 0 is the   *)
(*                 action of from_(file), k > 0 that of the k-th inner     *)
(*                 from_(s.split())                                        *)
(*   inner         the inner observables of the running subscription       *)
(*   active        the inner observables merge_all still holds             *)
(*   outerStopped  merge_all's is_stopped: from_(file) has completed       *)
(*   received      per subscription, what its on_next was called with;     *)
(*                 each word with the number of the line it came from      *)
(*   completed     per subscription, whether on_completed was called       *)
(***************************************************************************)

\* Bounds of the reader's inputs.
MaxChunks == 5
MaxSubs == 2

\* The pieces the input texts are put together from.
Chunks == { <<"B", " ">>, <<"_", "1", " ">>, <<"!", " ">>, <<"!", "b">>, <<"NL">> }

SeqsUpTo(S, n) == UNION { [1..k -> S] : k \in 0..n }

RECURSIVE Concat(_)
Concat(ss) == IF ss = <<>> THEN <<>> ELSE Head(ss) \o Concat(Tail(ss))

Texts == { Concat(cs) : cs \in SeqsUpTo(Chunks, MaxChunks) }

Pipelines == {"read_lines", "words_7_3A", "words_7_3B"}

\* The regular expression substitution of the pipeline's map step.
ReSub(pipeline, w) ==
    IF pipeline = "words_7_3A" THEN ReSubNonWord(w) ELSE ReSubNonWordNonSpace(w)

ReaderInit ==
    reader \in { [text |-> t, pipeline |-> p, filePos |-> 0, subs |-> 0,
                  queue |-> <<>>, inner |-> <<>>, active |-> {},
                  outerStopped |-> FALSE, received |-> <<>>, completed |-> <<>>]
                 : t \in Texts, p \in Pipelines }

\* The subscriber's on_next / on_completed of the running subscription.
ReaderDeliver(r, w, line) ==
    [r EXCEPT !.received[r.subs] = Append(@, [w |-> w, line |-> line])]

ReaderComplete(r) == [r EXCEPT !.completed[r.subs] = TRUE]

\* observable.subscribe(...): from_ takes iter(file), which is the file object
\* itself at its current position, and schedules its first action.  A subscribe
\* call returns only when the trampoline has drained, so the next one starts
\* with an empty queue.
ReaderSubscribe ==
    /\ reader.queue = <<>>
    /\ reader.subs < MaxSubs
    /\ reader' = [reader EXCEPT !.subs = @ + 1,
                                !.queue = <<0>>,
                                !.inner = <<>>,
                                !.active = {},
                                !.outerStopped = FALSE,
                                !.received = Append(@, <<>>),
                                !.completed = Append(@, FALSE)]
    /\ UNCHANGED <<walker, twitter, unsub, counter, observeOn, parallel>>

\* The effect of from_(file)'s on_next(line) on the rest of the chain.
ReaderOnLine(r, line, lineNo) ==
    IF r.pipeline = "read_lines"
    THEN \* .map(lambda l: l.strip()).filter(lambda l: l != "")
         LET l == Strip(line)
             r1 == IF l # <<>> THEN ReaderDeliver(r, l, lineNo) ELSE r
         IN  [r1 EXCEPT !.queue = Append(Tail(@), 0)]
    ELSE \* .flat_map(lambda s: Observable.from_(s.split())): merge_all subscribes
         \* to the inner observable, whose first action is queued, and then the
         \* outer action schedules itself again.
         LET id == Len(r.inner) + 1
         IN  [r EXCEPT !.inner = Append(@, [toks |-> Split(line), pos |-> 0,
                                            line |-> lineNo]),
                       !.active = @ \cup {id},
                       !.queue = Tail(@) \o <<id, 0>>]

\* The effect of from_(file)'s on_completed().
ReaderOnOuterCompleted(r) ==
    LET r1 == [r EXCEPT !.queue = Tail(@), !.outerStopped = TRUE]
    IN  IF r.pipeline = "read_lines" \/ r.active = {}
        THEN ReaderComplete(r1)
        ELSE r1

\* The trampoline runs the action of from_(file): next(iterator), then on_next
\* and schedule again, or on_completed at StopIteration.
ReaderOuterStep ==
    /\ reader.queue # <<>>
    /\ Head(reader.queue) = 0
    /\ LET lines == FileLines(reader.text)
       IN  reader' =
             IF reader.filePos < Len(lines)
             THEN ReaderOnLine([reader EXCEPT !.filePos = @ + 1],
                               lines[reader.filePos + 1], reader.filePos + 1)
             ELSE ReaderOnOuterCompleted(reader)
    /\ UNCHANGED <<walker, twitter, unsub, counter, observeOn, parallel>>

\* .map(re.sub).filter(lambda w: w != "").map(lambda w: w.lower()) on one token.
ReaderOnToken(r, tok, lineNo) ==
    LET w == ReSub(r.pipeline, tok)
    IN  IF w # <<>> THEN ReaderDeliver(r, Lower(w), lineNo) ELSE r

\* The trampoline runs the action of an inner from_(s.split()).
ReaderInnerStep ==
    /\ reader.queue # <<>>
    /\ Head(reader.queue) > 0
    /\ LET id == Head(reader.queue)
           in == reader.inner[id]
       IN  reader' =
             IF in.pos < Len(in.toks)
             THEN [ReaderOnToken(reader, in.toks[in.pos + 1], in.line)
                     EXCEPT !.inner[id].pos = @ + 1,
                            !.queue = Append(Tail(@), id)]
             ELSE LET r1 == [reader EXCEPT !.queue = Tail(@),
                                           !.active = @ \ {id}]
                  IN  IF r1.outerStopped /\ r1.active = {}
                      THEN ReaderComplete(r1)
                      ELSE r1
    /\ UNCHANGED <<walker, twitter, unsub, counter, observeOn, parallel>>

ReaderNext == ReaderSubscribe \/ ReaderOuterStep \/ ReaderInnerStep

InitReader ==
    /\ ReaderInit
    /\ walker = Idle /\ twitter = Idle /\ unsub = Idle
    /\ counter = Idle /\ observeOn = Idle /\ parallel = Idle

SpecReader == InitReader /\ [][ReaderNext]_vars

(***************************************************************************)
(* Properties of the reader.                                               *)
(***************************************************************************)

IsPrefix(a, b) == Len(a) <= Len(b) /\ SubSeq(b, 1, Len(a)) = a

\* The words of a subscription's emissions, without the line numbers.
WordsOf(evs) == [i \in 1..Len(evs) |-> evs[i].w]

OfLine(evs, k) == LET FromK(e) == e.line = k IN WordsOf(SelectSeq(evs, FromK))

\* A letter or a digit.
IsAlnum(c) == c \in {"b", "B", "1"}

IsUpperChar(c) == c = "B"

\* A token with the characters the statement does not keep removed, lowercased.
CleanedToken(tok, keepUnderscore) ==
    LET Keep(c) == IsAlnum(c) \/ (keepUnderscore /\ c = "_")
        kept == SelectSeq(tok, Keep)
    IN  [i \in 1..Len(kept) |-> IF IsUpperChar(kept[i]) THEN "b" ELSE kept[i]]

RECURSIVE CleanedTokens(_, _)
CleanedTokens(toks, keepUnderscore) ==
    IF toks = <<>> THEN <<>>
    ELSE LET w == CleanedToken(Head(toks), keepUnderscore)
         IN  (IF w = <<>> THEN <<>> ELSE <<w>>)
               \o CleanedTokens(Tail(toks), keepUnderscore)

RECURSIVE CleanedLines(_, _)
CleanedLines(lines, keepUnderscore) ==
    IF lines = <<>> THEN <<>>
    ELSE CleanedTokens(Split(Head(lines)), keepUnderscore)
           \o CleanedLines(Tail(lines), keepUnderscore)

IsWordsPipeline == reader.pipeline \in {"words_7_3A", "words_7_3B"}

\* C2 as stated: every word words_from_file emits (to the first subscriber of a
\* freshly opened file) is non-empty, lowercase and made only of letters and
\* digits, and the words emitted are, in order, the white-space separated tokens
\* of the lines with every non-alphanumeric character removed and the tokens
\* that become empty dropped.
C2_AsStated ==
    (IsWordsPipeline /\ reader.subs >= 1) =>
       LET evs == reader.received[1]
           expected == CleanedLines(FileLines(reader.text), FALSE)
       IN  /\ \A i \in 1..Len(evs) :
                /\ evs[i].w # <<>>
                /\ \A j \in 1..Len(evs[i].w) :
                      IsAlnum(evs[i].w[j]) /\ ~IsUpperChar(evs[i].w[j])
           /\ IsPrefix(WordsOf(evs), expected)
           /\ reader.completed[1] => WordsOf(evs) = expected

\* C2 as amended: every word words_from_file emits (to the first subscriber of
\* a freshly opened file) is non-empty, has no upper-case letter and is made
\* only of letters, digits and underscores; the words that come from one line
\* are, in order, that line's white-space separated tokens with every other
\* character removed and the tokens that become empty dropped; and at
\* completion every line's words have been emitted.  Words of different lines
\* may interleave.
C2_WordsPerLine ==
    (IsWordsPipeline /\ reader.subs >= 1) =>
       LET evs == reader.received[1]
           lines == FileLines(reader.text)
       IN  /\ \A i \in 1..Len(evs) :
                /\ evs[i].w # <<>>
                /\ evs[i].line \in 1..Len(lines)
                /\ \A j \in 1..Len(evs[i].w) :
                      /\ IsAlnum(evs[i].w[j]) \/ evs[i].w[j] = "_"
                      /\ ~IsUpperChar(evs[i].w[j])
           /\ \A k \in 1..Len(lines) :
                LET expected == CleanedTokens(Split(lines[k]), TRUE)
                IN  /\ IsPrefix(OfLine(evs, k), expected)
                    /\ reader.completed[1] => OfLine(evs, k) = expected

\* All tokens of the text, line by line.
RECURSIVE AllTokens(_)
AllTokens(lines) ==
    IF lines = <<>> THEN <<>> ELSE Split(Head(lines)) \o AllTokens(Tail(lines))

\* A completed first subscription of words_from_file in which a word of a later
\* line was emitted before a word of an earlier line, a word with an underscore
\* was emitted and a token was dropped.
C2_Witness ==
    /\ IsWordsPipeline
    /\ reader.subs >= 1
    /\ reader.completed[1]
    /\ LET evs == reader.received[1]
       IN  /\ \E i, j \in 1..Len(evs) : i < j /\ evs[i].line > evs[j].line
           /\ \E i \in 1..Len(evs) : \E j \in 1..Len(evs[i].w) : evs[i].w[j] = "_"
           /\ Len(evs) < Len(AllTokens(FileLines(reader.text)))

\* C4 as stated: every subscription to the observable one call of read_lines or
\* words_from_file returned receives the same full sequence of emissions, however
\* many subscriptions to it came before.
C4_AsStated ==
    \A k \in 1..reader.subs :
       reader.completed[k] => WordsOf(reader.received[k]) = WordsOf(reader.received[1])

(***************************************************************************)
(* recursive_files_in_directory and its pipeline (7.1C).  walker is the    *)
(* state of the one subscribe call of line 24:                             *)
(*   tree        the entries under folder, in directory-listing order;     *)
(*               parent 0 is folder itself                                 *)
(*   phase       "start", "walking" (inside emit_files_recursively),       *)
(*               "draining" (the trampoline runs the queued actions of the *)
(*               opened files), "done", or "crashed" (an exception left    *)
(*               the subscribe call)                                       *)
(*   todo        the directories os.walk has still to yield, next first    *)
(*   pending     the entries of the directory just yielded that the loops  *)
(*               of lines 9-12 have still to emit                          *)
(*   emitted     the entries observer.on_next was called with              *)
(*   walkCompleted  calls of observer.on_completed() by line 14            *)
(*   passed      the entries that passed the filter and reached flat_map            *)
(*   failures    data-source failures so far (open or read raised)         *)
(*   inner       the from_(file) observables flat_map subscribed to        *)
(*   queue       the trampoline's queue of their scheduled actions         *)
(*   active      the inner observables merge_all still holds               *)
(*   outerStopped  merge_all's is_stopped                                  *)
(*   stopped     the subscriber's observer is stopped                      *)
(*   events      the subscriber's callbacks, in the order they were called *)
(***************************************************************************)

MaxEntries == 3

\* The contents of the readable .txt files.
FileTexts == { <<"b", "NL">>, <<" ", "NL", "b", " ", "NL", "b">> }

\* What one directory entry can be: a directory or a file, with a name that
\* ends with '.txt' or not; a '.txt' file opens and reads ("ok"), cannot be
\* opened ("denied"), or opens and then cannot be read ("ioerror").
EntryKinds ==
    { [dir |-> TRUE, txt |-> t, state |-> "dir", text |-> <<>>] : t \in BOOLEAN }
    \cup { [dir |-> FALSE, txt |-> FALSE, state |-> "ok", text |-> <<>>] }
    \cup { [dir |-> FALSE, txt |-> TRUE, state |-> "ok", text |-> x] : x \in FileTexts }
    \cup { [dir |-> FALSE, txt |-> TRUE, state |-> st, text |-> <<>>]
             : st \in {"denied", "ioerror"} }

\* The directory trees: an entry's parent is folder (0) or a directory listed
\* before it.
Trees ==
    UNION { { t \in [1..n -> [parent : 0..MaxEntries, kind : EntryKinds]] :
                \A i \in 1..n : /\ t[i].parent < i
                                /\ t[i].parent > 0 => t[t[i].parent].kind.dir }
            : n \in 0..MaxEntries }

\* The sub-directories and the other entries of directory d, as os.walk lists
\* them, by their numbers.
ChildrenOf(tree, d, wantDir) ==
    LET Wanted(i) == tree[i].parent = d /\ tree[i].kind.dir = wantDir
    IN  SelectSeq([i \in 1..Len(tree) |-> i], Wanted)

WalkerInit ==
    walker \in { [tree |-> t, phase |-> "start", todo |-> <<>>, pending |-> <<>>,
                  emitted |-> <<>>, walkCompleted |-> 0, passed |-> <<>>,
                  failures |-> 0, inner |-> <<>>, queue |-> <<>>, active |-> {},
                  outerStopped |-> FALSE, stopped |-> FALSE, events |-> <<>>]
                 : t \in Trees }

\* The subscriber's callbacks (line 24); a stopped observer delivers nothing.
WalkerDeliver(w, ev) ==
    IF w.stopped THEN w
    ELSE [w EXCEPT !.events = Append(@, ev),
                   !.stopped = ev.type \in {"error", "completed"}]

\* .subscribe(...) of line 24: the chain subscribes up to Observable.create,
\* which calls emit_files_recursively; os.walk(folder) starts at folder.
WalkerSubscribe ==
    /\ walker # Idle
    /\ walker.phase = "start"
    /\ walker' = [walker EXCEPT !.phase = "walking", !.todo = <<0>>]
    /\ UNCHANGED <<reader, twitter, unsub, counter, observeOn, parallel>>

\* os.walk yields the next (root, directories, filenames): top-down, a
\* directory's sub-directories before the directories that were waiting.
WalkerNextDir ==
    /\ walker # Idle
    /\ walker.phase = "walking"
    /\ walker.pending = <<>>
    /\ walker.todo # <<>>
    /\ LET d == Head(walker.todo)
           dirs == ChildrenOf(walker.tree, d, TRUE)
           files == ChildrenOf(walker.tree, d, FALSE)
       IN  walker' = [walker EXCEPT !.pending = dirs \o files,
                                    !.todo = dirs \o Tail(@)]
    /\ UNCHANGED <<reader, twitter, unsub, counter, observeOn, parallel>>

\* The flat_map step on a path that passed the filter: open(f) raises for a
\* directory or a file that cannot be opened, and map's on_next hands the
\* exception to on_error; otherwise merge_all subscribes to from_(file), whose
\* first action is queued on the trampoline.  The observers downstream of the
\* selector are stopped after an error: what the selector returns is dropped.
WalkerFlatMap(w, e) ==
    LET k == w.tree[e].kind
        w1 == [w EXCEPT !.passed = Append(@, e)]
    IN  IF k.state \in {"dir", "denied"}
        THEN WalkerDeliver([w1 EXCEPT !.failures = @ + 1],
                           [type |-> "error", entry |-> e, line |-> <<>>])
        ELSE IF w1.stopped THEN w1
             ELSE LET id == Len(w1.inner) + 1
                  IN  [w1 EXCEPT !.inner = Append(@, [entry |-> e, pos |-> 0]),
                                 !.active = @ \cup {id},
                                 !.queue = Append(@, id)]

\* observer.on_next(os.path.join(root, ...)) of lines 10 and 12, with the
\* filter of line 20 and the flat_map of line 21.
WalkerEmit ==
    /\ walker # Idle
    /\ walker.phase = "walking"
    /\ walker.pending # <<>>
    /\ LET e == Head(walker.pending)
           w1 == [walker EXCEPT !.pending = Tail(@), !.emitted = Append(@, e)]
       IN  walker' = IF walker.tree[e].kind.txt THEN WalkerFlatMap(w1, e) ELSE w1
    /\ UNCHANGED <<reader, twitter, unsub, counter, observeOn, parallel>>

\* observer.on_completed() of line 14, and the return of the subscribe call
\* chain: merge_all notes that the outer sequence has completed and completes
\* if no inner observable is left; a subscription whose observer has stopped is
\* disposed, which cancels the queued actions.
WalkerCompleted ==
    /\ walker # Idle
    /\ walker.phase = "walking"
    /\ walker.pending = <<>>
    /\ walker.todo = <<>>
    /\ LET w1 == [walker EXCEPT !.walkCompleted = @ + 1, !.outerStopped = TRUE]
           w2 == IF w1.active = {}
                 THEN WalkerDeliver(w1, [type |-> "completed", entry |-> 0,
                                         line |-> <<>>])
                 ELSE w1
       IN  walker' = IF w2.stopped
                     THEN [w2 EXCEPT !.queue = <<>>, !.phase = "done"]
                     ELSE [w2 EXCEPT !.phase = "draining"]
    /\ UNCHANGED <<reader, twitter, unsub, counter, observeOn, parallel>>

\* The trampoline runs the action of a from_(file): next(iterator) raises
\* (nothing catches it: it leaves the trampoline and the subscribe call),
\* returns a line (map strip, filter, on_next, schedule again) or ends the
\* file (merge_all removes the inner observable and completes after the last).
WalkerInnerStep ==
    /\ walker # Idle
    /\ walker.phase = "draining"
    /\ walker.queue # <<>>
    /\ LET id == Head(walker.queue)
           in == walker.inner[id]
           k == walker.tree[in.entry].kind
           lines == FileLines(k.text)
       IN  walker' =
             IF k.state = "ioerror"
             THEN [walker EXCEPT !.failures = @ + 1, !.phase = "crashed",
                                 !.queue = <<>>]
             ELSE IF in.pos < Len(lines)
             THEN LET l == Strip(lines[in.pos + 1])
                      w1 == [walker EXCEPT !.inner[id].pos = @ + 1,
                                           !.queue = Append(Tail(@), id)]
                  IN  IF l # <<>>
                      THEN WalkerDeliver(w1, [type |-> "next", entry |-> in.entry,
                                              line |-> l])
                      ELSE w1
             ELSE LET w1 == [walker EXCEPT !.queue = Tail(@), !.active = @ \ {id}]
                  IN  IF w1.active = {}
                      THEN WalkerDeliver(w1, [type |-> "completed", entry |-> 0,
                                              line |-> <<>>])
                      ELSE w1
    /\ UNCHANGED <<reader, twitter, unsub, counter, observeOn, parallel>>

\* The trampoline's queue is empty: the subscribe call of line 24 returns.
WalkerReturn ==
    /\ walker # Idle
    /\ walker.phase = "draining"
    /\ walker.queue = <<>>
    /\ walker' = [walker EXCEPT !.phase = "done"]
    /\ UNCHANGED <<reader, twitter, unsub, counter, observeOn, parallel>>

WalkerNext ==
    \/ WalkerSubscribe
    \/ WalkerNextDir
    \/ WalkerEmit
    \/ WalkerCompleted
    \/ WalkerInnerStep
    \/ WalkerReturn

InitWalker ==
    /\ WalkerInit
    /\ reader = Idle /\ twitter = Idle /\ unsub = Idle
    /\ counter = Idle /\ observeOn = Idle /\ parallel = Idle

SpecWalker == InitWalker /\ [][WalkerNext]_vars

(***************************************************************************)
(* tweets_for (4.4A).  twitter is the state of one subscription to the     *)
(* observable tweets_for returns:                                          *)
(*   hasOnError  whether the subscriber registered an on_error callback    *)
(*               (the subscribe call of lines 37-40 registers none)        *)
(*   phase       "start", "streaming" (inside stream.filter), "ended", or  *)
(*               "crashed" (an exception left a listener callback)         *)
(*   received    what the stream has handed to the listener so far         *)
(*   failures    stream errors reported to TweetListener.on_error          *)
(*   stopped     the observer is stopped                                   *)
(*   events      the subscriber's callbacks, in the order they were called *)
(***************************************************************************)

MaxStreamEvents == 3

\* What the stream hands to on_data: a status with a "text" key, another JSON
\* message without one, or data json.loads rejects.
DataKinds == {"tweet", "notice", "garbage"}

TwitterInit ==
    twitter \in { [hasOnError |-> h, phase |-> "start", received |-> 0,
                   failures |-> 0, stopped |-> FALSE, events |-> <<>>]
                  : h \in BOOLEAN }

\* The subscriber's on_next; a stopped observer delivers nothing.
TwitterDeliverNext(t) ==
    IF t.stopped THEN t
    ELSE [t EXCEPT !.events = Append(@, [type |-> "next", cause |-> "tweet"])]

\* The subscriber's on_error: the registered callback, or the default one,
\* which raises the error in the thread that reported it.
TwitterDeliverError(t, cause) ==
    IF t.stopped THEN t
    ELSE IF t.hasOnError
         THEN [t EXCEPT !.events = Append(@, [type |-> "error", cause |-> cause]),
                        !.stopped = TRUE]
         ELSE [t EXCEPT !.stopped = TRUE, !.phase = "crashed"]

\* .subscribe(...): observe_tweets builds the listener and calls stream.filter,
\* which blocks and calls the listener from the stream's loop.
TwitterSubscribe ==
    /\ twitter # Idle
    /\ twitter.phase = "start"
    /\ twitter' = [twitter EXCEPT !.phase = "streaming"]
    /\ UNCHANGED <<reader, walker, unsub, counter, observeOn, parallel>>

\* TweetListener.on_data: observer.on_next(data), then json.loads, the filter on
\* "text" and the strip of lines 37-39.
TwitterOnData ==
    /\ twitter # Idle
    /\ twitter.phase = "streaming"
    /\ twitter.received < MaxStreamEvents
    /\ \E kind \in DataKinds :
         LET t1 == [twitter EXCEPT !.received = @ + 1]
         IN  twitter' = CASE kind = "tweet" -> TwitterDeliverNext(t1)
                          [] kind = "notice" -> t1
                          [] kind = "garbage" -> TwitterDeliverError(t1, "parse")
    /\ UNCHANGED <<reader, walker, unsub, counter, observeOn, parallel>>

\* TweetListener.on_error: observer.on_error(status).  It returns None, so the
\* stream goes on and may call the listener again.
TwitterOnError ==
    /\ twitter # Idle
    /\ twitter.phase = "streaming"
    /\ twitter.received < MaxStreamEvents
    /\ twitter' = TwitterDeliverError([twitter EXCEPT !.received = @ + 1,
                                                      !.failures = @ + 1], "stream")
    /\ UNCHANGED <<reader, walker, unsub, counter, observeOn, parallel>>

\* The stream disconnects: stream.filter and observe_tweets return.
TwitterStreamEnd ==
    /\ twitter # Idle
    /\ twitter.phase = "streaming"
    /\ twitter' = [twitter EXCEPT !.phase = "ended"]
    /\ UNCHANGED <<reader, walker, unsub, counter, observeOn, parallel>>

TwitterNext ==
    \/ TwitterSubscribe
    \/ TwitterOnData
    \/ TwitterOnError
    \/ TwitterStreamEnd

\* Either of the two programs whose data source can fail.
InitFailures ==
    /\ \/ WalkerInit /\ twitter = Idle
       \/ walker = Idle /\ TwitterInit
    /\ reader = Idle /\ unsub = Idle
    /\ counter = Idle /\ observeOn = Idle /\ parallel = Idle

FailuresNext == WalkerNext \/ TwitterNext

SpecFailures == InitFailures /\ [][FailuresNext]_vars

(***************************************************************************)
(* Properties of the walker and of the two failing sources.                *)
(***************************************************************************)

SeqToSet(q) == { q[i] : i \in 1..Len(q) }

NoDuplicates(q) == \A i, j \in 1..Len(q) : i # j => q[i] # q[j]

\* The entries that are files whose name ends with '.txt'.
TxtFiles(tree) == { i \in 1..Len(tree) : ~tree[i].kind.dir /\ tree[i].kind.txt }

\* C1 as stated: the paths that pass recursive_files_in_directory(folder) and
\* the endswith('.txt') filter are exactly the files under folder whose path
\* ends with '.txt', each exactly once; on_completed is signalled once, and only
\* after the whole tree has been walked; nothing that is not such a file
\* reaches the flat_map step.
C1_AsStated ==
    walker # Idle =>
       /\ SeqToSet(walker.passed) \subseteq TxtFiles(walker.tree)
       /\ NoDuplicates(walker.passed)
       /\ walker.walkCompleted <= 1
       /\ walker.walkCompleted = 1 =>
             /\ SeqToSet(walker.emitted) = 1..Len(walker.tree)
             /\ SeqToSet(walker.passed) = TxtFiles(walker.tree)
       /\ walker.phase \in {"draining", "done", "crashed"} => walker.walkCompleted = 1

ErrorEvents(evs) == { i \in 1..Len(evs) : evs[i].type = "error" }

ErrorOnceAndLast(evs) == ErrorEvents(evs) = {Len(evs)} /\ Len(evs) > 0

\* C3 as stated: once a data source has failed (a file of the recursive reader
\* could not be opened or read; the stream reported an error to
\* TweetListener.on_error) in a pipeline whose subscriber registered on_error,
\* that callback has been called exactly once and no callback after it.
C3_AsStated ==
    /\ (walker # Idle /\ walker.failures > 0) => ErrorOnceAndLast(walker.events)
    /\ (twitter # Idle /\ twitter.hasOnError /\ twitter.failures > 0)
          => ErrorOnceAndLast(twitter.events)

(***************************************************************************)
(* The unsubscribing example (4.3C): the main thread and the thread of the *)
(* interval's timer.  Time is counted in seconds.  A thread that waits for *)
(* a time does not run before it and may run up to MaxLate seconds after   *)
(* it; the steps that take no time are taken before the clock moves on.    *)
(* unsub is the state after the subscribe call of lines 4-6:               *)
(*   now         the clock                                                 *)
(*   mainPc      "sleep1" (line 9), "print" (line 12), "dispose" (line     *)
(*               13), "sleep2" (line 16), "exit"                           *)
(*   mainDue     when the main thread's sleep ends                         *)
(*   timerPc     "waiting" for the next tick, "fired" (the timer's action  *)
(*               runs and is about to call on_next), "deliver" (on_next    *)
(*               found the observer live and is about to call the          *)
(*               subscriber), "cancelled"                                  *)
(*   timerDue    when the next tick is due                                 *)
(*   count       the interval's next value                                 *)
(*   stopped     the subscriber's observer is stopped (disposed)           *)
(*   output      the lines printed: "n Mississippi" with its n, or         *)
(*               "Unsubscribing!"                                          *)
(*   lateOnNext  the subscriber's on_next was called after dispose()       *)
(*               had returned                                              *)
(***************************************************************************)

\* Observable.interval(1000): the period in seconds.
IntervalPeriod == 1
\* time.sleep(5), lines 9 and 16.
SleepSeconds == 5
\* How late a waiting thread may run, and where the model's clock stops.
MaxLate == 1
MaxTime == 12

UnsubInit ==
    unsub = [now |-> 0, mainPc |-> "sleep1", mainDue |-> SleepSeconds,
             timerPc |-> "waiting", timerDue |-> IntervalPeriod, count |-> 0,
             stopped |-> FALSE, output |-> <<>>, lateOnNext |-> FALSE]

UnsubRunning == unsub # Idle /\ unsub.mainPc # "exit"

\* A second passes: no step that takes no time is waiting, and no thread is
\* kept waiting longer than MaxLate past its time.
UnsubClock ==
    /\ UnsubRunning
    /\ unsub.now < MaxTime
    /\ unsub.mainPc \in {"sleep1", "sleep2"}
    /\ unsub.timerPc \in {"waiting", "cancelled"}
    /\ unsub.now < unsub.mainDue + MaxLate
    /\ unsub.timerPc = "waiting" => unsub.now < unsub.timerDue + MaxLate
    /\ unsub' = [unsub EXCEPT !.now = @ + 1]
    /\ UNCHANGED <<reader, walker, twitter, counter, observeOn, parallel>>

\* The timer's thread starts the interval's action.
UnsubTimerFire ==
    /\ UnsubRunning
    /\ unsub.timerPc = "waiting"
    /\ unsub.now >= unsub.timerDue
    /\ unsub' = [unsub EXCEPT !.timerPc = "fired"]
    /\ UNCHANGED <<reader, walker, twitter, counter, observeOn, parallel>>

\* observer.on_next(count) reaches the subscriber's observer, which drops the
\* value if it is stopped; the next tick of a disposed interval is not
\* scheduled.
UnsubOnNext ==
    /\ UnsubRunning
    /\ unsub.timerPc = "fired"
    /\ unsub' = IF unsub.stopped
                THEN [unsub EXCEPT !.timerPc = "cancelled"]
                ELSE [unsub EXCEPT !.timerPc = "deliver"]
    /\ UNCHANGED <<reader, walker, twitter, counter, observeOn, parallel>>

\* The subscriber's on_next: print("{0} Mississippi"); then the action returns
\* and the next tick is scheduled one period from now, unless disposed.
UnsubPrintTick ==
    /\ UnsubRunning
    /\ unsub.timerPc = "deliver"
    /\ unsub' = [unsub EXCEPT
                   !.output = Append(@, [line |-> "Mississippi", n |-> unsub.count]),
                   !.lateOnNext = @ \/ unsub.mainPc = "sleep2",
                   !.count = @ + 1,
                   !.timerPc = IF unsub.stopped THEN "cancelled" ELSE "waiting",
                   !.timerDue = unsub.now + IntervalPeriod]
    /\ UNCHANGED <<reader, walker, twitter, counter, observeOn, parallel>>

\* time.sleep(5) of line 9 or of line 16 ends.
UnsubMainWake ==
    /\ UnsubRunning
    /\ unsub.mainPc \in {"sleep1", "sleep2"}
    /\ unsub.now >= unsub.mainDue
    /\ unsub' = [unsub EXCEPT
                   !.mainPc = IF unsub.mainPc = "sleep1" THEN "print" ELSE "exit"]
    /\ UNCHANGED <<reader, walker, twitter, counter, observeOn, parallel>>

\* print("Unsubscribing!"), line 12.
UnsubMainPrint ==
    /\ UnsubRunning
    /\ unsub.mainPc = "print"
    /\ unsub' = [unsub EXCEPT !.output = Append(@, [line |-> "Unsubscribing!", n |-> 0]),
                              !.mainPc = "dispose"]
    /\ UNCHANGED <<reader, walker, twitter, counter, observeOn, parallel>>

\* disposable.dispose(), line 13: the observer is stopped and the timer that
\* has not fired yet is cancelled; then time.sleep(5), line 16, starts.
UnsubMainDispose ==
    /\ UnsubRunning
    /\ unsub.mainPc = "dispose"
    /\ unsub' = [unsub EXCEPT
                   !.stopped = TRUE,
                   !.timerPc = IF @ = "waiting" THEN "cancelled" ELSE @,
                   !.mainPc = "sleep2",
                   !.mainDue = unsub.now + SleepSeconds]
    /\ UNCHANGED <<reader, walker, twitter, counter, observeOn, parallel>>

UnsubNext ==
    \/ UnsubClock
    \/ UnsubTimerFire
    \/ UnsubOnNext
    \/ UnsubPrintTick
    \/ UnsubMainWake
    \/ UnsubMainPrint
    \/ UnsubMainDispose

InitUnsub ==
    /\ UnsubInit
    /\ reader = Idle /\ walker = Idle /\ twitter = Idle
    /\ counter = Idle /\ observeOn = Idle /\ parallel = Idle

SpecUnsub == InitUnsub /\ [][UnsubNext]_vars

\* C5 as stated: once dispose() has returned the subscriber's on_next is not
\* called again, and no "N Mississippi" line is printed after "Unsubscribing!",
\* however the timer's ticks interleave with the main thread.
C5_AsStated ==
    unsub # Idle =>
       /\ ~unsub.lateOnNext
       /\ \A i, j \in 1..Len(unsub.output) :
             (i < j /\ unsub.output[i].line = "Unsubscribing!")
                => unsub.output[j].line # "Mississippi"

(***************************************************************************)
(* The scheduled word counter (7.3C).  counter is the state from the       *)
(* moment the interpreter is started on the file:                          *)
(*   phase      "start", "running" (the module's statements have run and   *)
(*              the main thread waits in input()), or "syntax_error" (the  *)
(*              interpreter rejected the module; none of it has run)       *)
(*   text       the current content of bbc_news_article.txt                *)
(*   ticks      periods of 3000 ms that have passed since the start        *)
(*   dicts      the word-count dicts computed, one per executed tick       *)
(*   hasKey, lastKey   distinct_until_changed's has_current_key and        *)
(*              current_key                                                *)
(*   printed    the dicts printed                                          *)
(***************************************************************************)

MaxEditChunks == 2
MaxTicks == 3

\* What the article file can hold while the program is watched.
CounterTexts == { Concat(cs) : cs \in SeqsUpTo(Chunks, MaxEditChunks) }

\* The physical lines 40-43 of the module, its last statement: whether the
\* line ends with a backslash and whether it starts with white space.
StatementLines ==
    << [no |-> 40, continued |-> TRUE,  indented |-> FALSE],
       [no |-> 41, continued |-> FALSE, indented |-> TRUE],
       [no |-> 42, continued |-> TRUE,  indented |-> TRUE],
       [no |-> 43, continued |-> FALSE, indented |-> TRUE] >>

\* A physical line starts a logical line unless the line before it ends with a
\* backslash; a logical line of a module's top level must not be indented.
ModuleCompiles ==
    \A i \in 1..Len(StatementLines) :
       (i = 1 \/ ~StatementLines[i - 1].continued) => ~StatementLines[i].indented

RECURSIVE WordsOfTokens(_)
WordsOfTokens(toks) ==
    IF toks = <<>> THEN <<>>
    ELSE LET w == ReSubNonWordNonSpace(Head(toks))
         IN  (IF w # <<>> THEN <<Lower(w)>> ELSE <<>>) \o WordsOfTokens(Tail(toks))

RECURSIVE WordsOfLines(_)
WordsOfLines(lines) ==
    IF lines = <<>> THEN <<>>
    ELSE WordsOfTokens(Split(Head(lines))) \o WordsOfLines(Tail(lines))

\* words_from_file on a freshly opened file, lines 8-16: the words it emits
\* (the order in which flat_map merges them does not change the counts).
WordsFromFile(text) == WordsOfLines(FileLines(text))

\* word_counter_as_dict, lines 20-31: group_by the word, count each group,
\* to_dict: each word with the number of its occurrences.
WordCounterAsDict(text) ==
    LET ws == WordsFromFile(text)
    IN  [w \in SeqToSet(ws) |-> Cardinality({ i \in 1..Len(ws) : ws[i] = w })]

CounterInit ==
    counter \in { [phase |-> "start", text |-> t, ticks |-> 0, dicts |-> <<>>,
                   hasKey |-> FALSE, lastKey |-> <<>>, printed |-> <<>>]
                  : t \in CounterTexts }

\* The interpreter compiles the module before it runs any of it.
CounterLaunch ==
    /\ counter # Idle
    /\ counter.phase = "start"
    /\ counter' = [counter EXCEPT
                     !.phase = IF ModuleCompiles THEN "running" ELSE "syntax_error"]
    /\ UNCHANGED <<reader, walker, twitter, unsub, observeOn, parallel>>

\* Somebody edits the article file.
CounterEditFile ==
    /\ counter # Idle
    /\ \E t \in CounterTexts \ {counter.text} : counter' = [counter EXCEPT !.text = t]
    /\ UNCHANGED <<reader, walker, twitter, unsub, observeOn, parallel>>

\* .distinct_until_changed().subscribe(print), lines 42-43, on one dict.
CounterOnDict(c, d) ==
    LET c1 == [c EXCEPT !.dicts = Append(@, d)]
    IN  IF c.hasKey /\ c.lastKey = d
        THEN c1
        ELSE [c1 EXCEPT !.hasKey = TRUE, !.lastKey = d, !.printed = Append(@, d)]

\* 3000 ms pass.  In a running program the interval of line 40 ticks, and the
\* flat_map of line 41 calls word_counter_as_dict on the file as it is now.
CounterTick ==
    /\ counter # Idle
    /\ counter.phase # "start"
    /\ counter.ticks < MaxTicks
    /\ LET c1 == [counter EXCEPT !.ticks = @ + 1]
       IN  counter' = IF counter.phase = "running"
                      THEN CounterOnDict(c1, WordCounterAsDict(counter.text))
                      ELSE c1
    /\ UNCHANGED <<reader, walker, twitter, unsub, observeOn, parallel>>

CounterNext == CounterLaunch \/ CounterEditFile \/ CounterTick

InitCounter ==
    /\ CounterInit
    /\ reader = Idle /\ walker = Idle /\ twitter = Idle
    /\ unsub = Idle /\ observeOn = Idle /\ parallel = Idle

SpecCounter == InitCounter /\ [][CounterNext]_vars

\* C6 as stated: at every 3000 ms tick a word-count dict is computed from the
\* file's current content; the first one is printed, and a later one is
\* printed only if it differs from the dict of the tick before, so no two
\* dicts printed one after the other are equal.
C6_AsStated ==
    counter # Idle =>
       /\ Len(counter.dicts) = counter.ticks
       /\ counter.ticks >= 1 => Len(counter.printed) >= 1
       /\ \A i \in 1..(Len(counter.printed) - 1) :
             counter.printed[i] # counter.printed[i + 1]
       /\ Len(counter.printed) =
             Cardinality({ i \in 1..Len(counter.dicts) :
                             i = 1 \/ counter.dicts[i] # counter.dicts[i - 1] })

(***************************************************************************)
(* The observe_on example (9.2): the main thread, the thread of Process    *)
(* 3's interval timer and the worker threads of pool_scheduler.  Every     *)
(* call of pool_scheduler.schedule submits one task to the pool's          *)
(* executor, which hands its tasks to free workers first-in first-out.     *)
(* observeOn is the state after line 13:                                   *)
(*   cpus       multiprocessing.cpu_count()                                *)
(*   mainPc     "p1", "p2", "p3" (the subscribe call the main thread makes *)
(*              next) or "input" (line 36)                                 *)
(*   workQueue  the executor's queue of submitted tasks                    *)
(*   busy       the tasks that run on a worker                             *)
(*   out1, out2 what Process 1 / Process 2 printed from on_next            *)
(*   done1, done2  how often "PROCESS n done!" was printed                 *)
(*   ticks      values Process 3's interval has emitted                    *)
(*   p3Queue    observe_on's queue of values not yet handed on             *)
(*   p3Acquired observe_on's is_acquired: a drain task is submitted or     *)
(*              running                                                    *)
(*   out3       what Process 3 printed                                     *)
(***************************************************************************)

MaxCpus == 2
MaxP3Ticks == 3

\* Line 16: the source of Process 1.
P1Items == <<"Alpha", "Beta", "Gamma", "Delta", "Epsilon">>

\* Python's range(start, stop) read into Observable.range: the integers from
\* start up to, not including, the second argument.
RangeToStop(start, count) == [i \in 1..(count - start) |-> start + i - 1]

\* Observable.range(start, count): count consecutive integers from start.
Range(start, count) == [i \in 1..count |-> start + i - 1]

\* Line 24: Observable.range(1,10), the source of Process 2.
P2Items == Range(1, 10)

\* Line 12: optimal_thread_count.
PoolSize(cpus) == cpus + 1

ObserveOnInit ==
    observeOn \in { [cpus |-> c, mainPc |-> "p1", workQueue |-> <<>>, busy |-> {},
                     out1 |-> <<>>, out2 |-> <<>>, done1 |-> 0, done2 |-> 0,
                     ticks |-> 0, p3Queue |-> <<>>, p3Acquired |-> FALSE,
                     out3 |-> <<>>]
                    : c \in 1..MaxCpus }

\* The main thread's next statement: the subscribe of Process 1 or 2, where
\* subscribe_on submits the subscription to the pool, or that of Process 3,
\* which starts the interval's timer.
ObserveOnMain ==
    /\ observeOn.mainPc # "input"
    /\ observeOn' =
         CASE observeOn.mainPc = "p1" ->
                [observeOn EXCEPT !.workQueue = Append(@, "P1"), !.mainPc = "p2"]
           [] observeOn.mainPc = "p2" ->
                [observeOn EXCEPT !.workQueue = Append(@, "P2"), !.mainPc = "p3"]
           [] observeOn.mainPc = "p3" ->
                [observeOn EXCEPT !.mainPc = "input"]
    /\ UNCHANGED <<reader, walker, twitter, unsub, counter, parallel>>

\* A free worker takes the oldest submitted task.
ObserveOnWorkerStart ==
    /\ observeOn.workQueue # <<>>
    /\ Cardinality(observeOn.busy) < PoolSize(observeOn.cpus)
    /\ observeOn' = [observeOn EXCEPT !.busy = @ \cup {Head(observeOn.workQueue)},
                                      !.workQueue = Tail(@)]
    /\ UNCHANGED <<reader, walker, twitter, unsub, counter, parallel>>

\* Process 1 on its worker: from_ emits the next item through map
\* (intense_calculation) to on_next, or completes and the task ends.
ObserveOnP1Step ==
    /\ "P1" \in observeOn.busy
    /\ observeOn' =
         IF Len(observeOn.out1) < Len(P1Items)
         THEN [observeOn EXCEPT !.out1 = Append(@, P1Items[Len(@) + 1])]
         ELSE [observeOn EXCEPT !.done1 = @ + 1, !.busy = @ \ {"P1"}]
    /\ UNCHANGED <<reader, walker, twitter, unsub, counter, parallel>>

\* Process 2 on its worker, likewise.
ObserveOnP2Step ==
    /\ "P2" \in observeOn.busy
    /\ observeOn' =
         IF Len(observeOn.out2) < Len(P2Items)
         THEN [observeOn EXCEPT !.out2 = Append(@, P2Items[Len(@) + 1])]
         ELSE [observeOn EXCEPT !.done2 = @ + 1, !.busy = @ \ {"P2"}]
    /\ UNCHANGED <<reader, walker, twitter, unsub, counter, parallel>>

\* Process 3's interval ticks on the timer's thread: map (i * 100), then
\* observe_on queues the value and submits a drain task unless one is there.
ObserveOnTick ==
    /\ observeOn.mainPc = "input"
    /\ observeOn.ticks < MaxP3Ticks
    /\ observeOn' =
         [observeOn EXCEPT
            !.ticks = @ + 1,
            !.p3Queue = Append(@, observeOn.ticks * 100),
            !.p3Acquired = TRUE,
            !.workQueue = IF observeOn.p3Acquired THEN @ ELSE Append(@, "P3")]
    /\ UNCHANGED <<reader, walker, twitter, unsub, counter, parallel>>

\* observe_on's drain task on a worker: it hands one queued value on (map
\* intense_calculation, on_next) and submits itself again, or finds the queue
\* empty and releases.
ObserveOnP3Step ==
    /\ "P3" \in observeOn.busy
    /\ observeOn' =
         IF observeOn.p3Queue # <<>>
         THEN [observeOn EXCEPT !.out3 = Append(@, Head(observeOn.p3Queue)),
                                !.p3Queue = Tail(@),
                                !.busy = @ \ {"P3"},
                                !.workQueue = Append(@, "P3")]
         ELSE [observeOn EXCEPT !.p3Acquired = FALSE, !.busy = @ \ {"P3"}]
    /\ UNCHANGED <<reader, walker, twitter, unsub, counter, parallel>>

ObserveOnNext ==
    \/ ObserveOnMain
    \/ ObserveOnWorkerStart
    \/ ObserveOnP1Step
    \/ ObserveOnP2Step
    \/ ObserveOnTick
    \/ ObserveOnP3Step

InitObserveOn ==
    /\ ObserveOnInit
    /\ reader = Idle /\ walker = Idle /\ twitter = Idle
    /\ unsub = Idle /\ counter = Idle /\ parallel = Idle

\* The threads keep running: the main thread reaches input(), a worker with
\* nothing to do takes a waiting task, and a task on a worker goes on (every
\* intense_calculation returns).  Nothing is assumed about the timer.
SpecObserveOn ==
    /\ InitObserveOn
    /\ [][ObserveOnNext]_vars
    /\ WF_vars(ObserveOnMain)
    /\ WF_vars(ObserveOnWorkerStart)
    /\ WF_vars(ObserveOnP1Step)
    /\ WF_vars(ObserveOnP2Step)
    /\ WF_vars(ObserveOnP3Step)

\* What Process 1 and Process 2 may have printed so far.
C7_InOrder ==
    /\ IsPrefix(observeOn.out1, <<"Alpha", "Beta", "Gamma", "Delta", "Epsilon">>)
    /\ IsPrefix(observeOn.out2, <<1, 2, 3, 4, 5, 6, 7, 8, 9, 10>>)
    /\ observeOn.done1 <= 1
    /\ observeOn.done2 <= 1
    /\ observeOn.done1 = 1 => Len(observeOn.out1) = 5
    /\ observeOn.done2 = 1 => Len(observeOn.out2) = 10

\* C7: Process 1 delivers Alpha, Beta, Gamma, Delta, Epsilon in source order
\* and then eventually prints "PROCESS 1 done!" exactly once, and Process 2
\* delivers 1..10 in source order and then eventually prints "PROCESS 2 done!"
\* exactly once, however the three processes interleave on the pool and
\* although Process 3 never completes.
C7_BothProcessesFinish ==
    /\ []C7_InOrder
    /\ <>[](observeOn.done1 = 1 /\ observeOn.done2 = 1)

\* Both processes are done on the smallest pool, while Process 3 has printed
\* and still has a value waiting.
C7_Witness ==
    /\ observeOn.cpus = 1
    /\ observeOn.done1 = 1
    /\ observeOn.done2 = 1
    /\ observeOn.out3 # <<>>
    /\ observeOn.p3Queue # <<>>

(***************************************************************************)
(* The parallel-processing example (9.3): the main thread, on which the    *)
(* outer from_ and flat_map run, and the worker threads of pool_scheduler, *)
(* each running the inner observable of one string.  merge_all (inside     *)
(* flat_map) and the subscriber's observer are shared by all of them and   *)
(* take no lock: a thread's steps on them interleave with the others'.     *)
(* parallel is the state after line 14:                                    *)
(*   cpus        multiprocessing.cpu_count()                               *)
(*   mainPc      "emit" (the outer from_ has items left), "stop", "check", *)
(*               "completeTest", "completeSet" (the outer on_completed in  *)
(*               merge_all and in the observer), "input" (line 26)         *)
(*   mainPos     items the outer from_ has emitted                         *)
(*   workQueue   the executor's queue of submitted tasks                   *)
(*   stage       per inner observable k: "new", "queued", then on a        *)
(*               worker "emit", "remove", "check", "completeTest",         *)
(*               "completeSet", and "done"                                 *)
(*   group       the inner subscriptions merge_all holds                   *)
(*   isStopped   merge_all's is_stopped: the outer sequence has completed  *)
(*   obsStopped  the subscriber's observer is stopped                      *)
(*   delivered   per string, how often on_next printed it                  *)
(*   doneCount   how often "PROCESS 1 done!" was printed                   *)
(***************************************************************************)

\* Line 17: the strings of the outer from_.
ParallelItems ==
    <<"Alpha", "Beta", "Gamma", "Delta", "Epsilon",
      "Zeta", "Eta", "Theta", "Iota", "Kappa">>

ItemIds == 1..Len(ParallelItems)

OnWorker == {"emit", "remove", "check", "completeTest", "completeSet"}

ParallelInit ==
    parallel \in { [cpus |-> c, mainPc |-> "emit", mainPos |-> 0,
                    workQueue |-> <<>>, stage |-> [k \in ItemIds |-> "new"],
                    group |-> {}, isStopped |-> FALSE, obsStopped |-> FALSE,
                    delivered |-> [k \in ItemIds |-> 0], doneCount |-> 0]
                   : c \in 1..MaxCpus }

\* The outer from_ emits the next string: flat_map builds the inner observable,
\* merge_all adds its subscription to the group and subscribes, and
\* subscribe_on submits the subscription to the pool.  After the last string
\* the outer sequence completes.
ParallelMainEmit ==
    /\ parallel.mainPc = "emit"
    /\ parallel' =
         IF parallel.mainPos < Len(ParallelItems)
         THEN LET k == parallel.mainPos + 1
              IN  [parallel EXCEPT !.mainPos = k,
                                   !.group = @ \cup {k},
                                   !.stage[k] = "queued",
                                   !.workQueue = Append(@, k)]
         ELSE [parallel EXCEPT !.mainPc = "stop"]
    /\ UNCHANGED <<reader, walker, twitter, unsub, counter, observeOn>>

\* merge_all's on_complete of the outer sequence: is_stopped[0] = True ...
ParallelMainStop ==
    /\ parallel.mainPc = "stop"
    /\ parallel' = [parallel EXCEPT !.isStopped = TRUE, !.mainPc = "check"]
    /\ UNCHANGED <<reader, walker, twitter, unsub, counter, observeOn>>

\* ... if len(group) == 1: observer.on_completed()  (the group's one other
\* member is the outer subscription).
ParallelMainCheck ==
    /\ parallel.mainPc = "check"
    /\ parallel' = [parallel EXCEPT
                      !.mainPc = IF parallel.group = {} THEN "completeTest"
                                 ELSE "input"]
    /\ UNCHANGED <<reader, walker, twitter, unsub, counter, observeOn>>

\* observer.on_completed() on the main thread: if not self.is_stopped ...
ParallelMainCompleteTest ==
    /\ parallel.mainPc = "completeTest"
    /\ parallel' = [parallel EXCEPT
                      !.mainPc = IF parallel.obsStopped THEN "input"
                                 ELSE "completeSet"]
    /\ UNCHANGED <<reader, walker, twitter, unsub, counter, observeOn>>

\* ... self.is_stopped = True, and the subscriber's on_completed prints.
ParallelMainCompleteSet ==
    /\ parallel.mainPc = "completeSet"
    /\ parallel' = [parallel EXCEPT !.obsStopped = TRUE,
                                    !.doneCount = @ + 1,
                                    !.mainPc = "input"]
    /\ UNCHANGED <<reader, walker, twitter, unsub, counter, observeOn>>

\* A free worker takes the oldest submitted task.
ParallelWorkerStart ==
    /\ parallel.workQueue # <<>>
    /\ Cardinality({ k \in ItemIds : parallel.stage[k] \in OnWorker })
          < PoolSize(parallel.cpus)
    /\ parallel' = [parallel EXCEPT !.stage[Head(parallel.workQueue)] = "emit",
                                    !.workQueue = Tail(@)]
    /\ UNCHANGED <<reader, walker, twitter, unsub, counter, observeOn>>

\* Observable.just(s) emits s: map (intense_calculation), then the subscriber's
\* on_next prints it, unless the observer is stopped.
ParallelEmit(k) ==
    /\ parallel.stage[k] = "emit"
    /\ parallel' = [parallel EXCEPT
                      !.delivered[k] = IF parallel.obsStopped THEN @ ELSE @ + 1,
                      !.stage[k] = "remove"]
    /\ UNCHANGED <<reader, walker, twitter, unsub, counter, observeOn>>

\* The inner observable completes; merge_all's inner on_complete:
\* group.remove(inner_subscription) ...
ParallelRemove(k) ==
    /\ parallel.stage[k] = "remove"
    /\ parallel' = [parallel EXCEPT !.group = @ \ {k}, !.stage[k] = "check"]
    /\ UNCHANGED <<reader, walker, twitter, unsub, counter, observeOn>>

\* ... if is_stopped[0] and len(group) == 1: observer.on_completed()
ParallelCheck(k) ==
    /\ parallel.stage[k] = "check"
    /\ parallel' = [parallel EXCEPT
                      !.stage[k] = IF parallel.isStopped /\ parallel.group = {}
                                   THEN "completeTest" ELSE "done"]
    /\ UNCHANGED <<reader, walker, twitter, unsub, counter, observeOn>>

\* observer.on_completed() on a worker: if not self.is_stopped ...
ParallelCompleteTest(k) ==
    /\ parallel.stage[k] = "completeTest"
    /\ parallel' = [parallel EXCEPT
                      !.stage[k] = IF parallel.obsStopped THEN "done"
                                   ELSE "completeSet"]
    /\ UNCHANGED <<reader, walker, twitter, unsub, counter, observeOn>>

\* ... self.is_stopped = True, and the subscriber's on_completed prints.
ParallelCompleteSet(k) ==
    /\ parallel.stage[k] = "completeSet"
    /\ parallel' = [parallel EXCEPT !.obsStopped = TRUE,
                                    !.doneCount = @ + 1,
                                    !.stage[k] = "done"]
    /\ UNCHANGED <<reader, walker, twitter, unsub, counter, observeOn>>

ParallelNext ==
    \/ ParallelMainEmit
    \/ ParallelMainStop
    \/ ParallelMainCheck
    \/ ParallelMainCompleteTest
    \/ ParallelMainCompleteSet
    \/ ParallelWorkerStart
    \/ \E k \in ItemIds : ParallelEmit(k)
    \/ \E k \in ItemIds : ParallelRemove(k)
    \/ \E k \in ItemIds : ParallelCheck(k)
    \/ \E k \in ItemIds : ParallelCompleteTest(k)
    \/ \E k \in ItemIds : ParallelCompleteSet(k)

InitParallel ==
    /\ ParallelInit
    /\ reader = Idle /\ walker = Idle /\ twitter = Idle
    /\ unsub = Idle /\ counter = Idle /\ observeOn = Idle

SpecParallel == InitParallel /\ [][ParallelNext]_vars

\* C8 as stated: under every interleaving of the pool threads each of the 10
\* strings is delivered to on_next exactly once, and "PROCESS 1 done!" is
\* printed exactly once and only after all 10 strings have been delivered.
C8_AsStated ==
    /\ \A k \in ItemIds : parallel.delivered[k] <= 1
    /\ parallel.doneCount <= 1
    /\ parallel.doneCount >= 1 => \A k \in ItemIds : parallel.delivered[k] = 1
    /\ (parallel.mainPc = "input" /\ \A k \in ItemIds : parallel.stage[k] = "done")
          => parallel.doneCount = 1

====
